---------------------------- MODULE Spec2Model ----------------------------
(***************************************************************************)
(* A model of vstools' error hierarchy (exceptions/base.py) and property   *)
(* accessors (utils/props.py): get_prop, merge_clip_props and CustomError. *)
(***************************************************************************)
EXTENDS Integers, Sequences, FiniteSets, TLC

VARIABLES
    pc,         \* get_prop: position of the call in progress
    args,       \* get_prop: the arguments of the call in progress
    props,      \* get_prop: the resolved property container (line 79-83)
    key,        \* get_prop: the resolved key string (line 85-86)
    func,       \* get_prop: the origin function after fallback (line 76)
    prop,       \* get_prop: the local `prop` (line 88, 91)
    exc,        \* get_prop: class of the exception caught at line 100
    castCalls,  \* get_prop: the values `cast` was invoked on, in order
    result      \* get_prop: how the call ended (return value or raised error)

VARIABLES
    epc,        \* CustomError: position (idle, constructed, failed, handled)
    eargs,      \* CustomError: the constructor's arguments and isatty()
    err,        \* CustomError: the constructed instance (class, args)
    ctorExc,    \* CustomError: class of the exception __init__ itself raised
    handler,    \* the class named by the except clause tried
    caught      \* whether that except clause caught the instance

propVars == <<pc, args, props, key, func, prop, exc, castCalls, result>>
VARIABLES
    mpc,        \* merge_clip_props: idle, or merged (the call has returned)
    clips,      \* merge_clip_props: the input nodes, by identity
    clipKeys,   \* the keys each input node's frames carry
    main_idx,   \* merge_clip_props: main_idx, captured by the callback
    retNode,    \* the node merge_clip_props returned
    callbackOn, \* whether _merge_props was registered with std.ModifyFrame
    frames,     \* the heap of frame objects
    worker,     \* per worker thread: position in _merge_props, n, i, fdst
    out         \* the output frames the engine has received

errVars == <<epc, eargs, err, ctorExc, handler, caught>>
mergeVars == <<mpc, clips, clipKeys, main_idx, retNode, callbackOn, frames, worker, out>>

vars == <<propVars, errVars, mergeVars>>

--------------------------------------------------------------------------
(* Python values: a type name and a payload (an integer or a string, the   *)
(* string kept as a sequence of characters).                               *)

IntV(n) == [ty |-> "int", i |-> n, s |-> <<>>]
StrV(cs) == [ty |-> "str", i |-> 0, s |-> cs]
NoneV == [ty |-> "NoneType", i |-> 0, s |-> <<>>]
FuncV(name) == [ty |-> "function", i |-> 0, s |-> name]

\* types.MISSING: the "no default" sentinel, compared by identity.
MISSING == [ty |-> "MissingT", i |-> 0, s |-> <<>>]

TypeOf(v) == v.ty

\* bool(v) for the values above.
Truthy(v) ==
    CASE v.ty = "int" -> v.i # 0
      [] v.ty = "str" -> v.s # <<>>
      [] v.ty = "NoneType" -> FALSE
      [] OTHER -> TRUE

--------------------------------------------------------------------------
(* The class hierarchy: each class's direct bases.                         *)

Variants == {"CustomValueError", "CustomKeyError", "CustomTypeError",
             "CustomRuntimeError", "CustomPermissionError"}

\* Mutant: CustomKeyError declared with CustomValueError's standard base.
StdOfCopyPaste(c) ==
    CASE c = "CustomValueError" -> "ValueError"
      [] c = "CustomKeyError" -> "ValueError"
      [] c = "CustomTypeError" -> "TypeError"
      [] c = "CustomRuntimeError" -> "RuntimeError"
      [] c = "CustomPermissionError" -> "PermissionError"

\* The standard category each variant also inherits from (base.py 61-78).
StdOf(c) ==
    CASE c = "CustomValueError" -> "ValueError"
      [] c = "CustomKeyError" -> "KeyError"
      [] c = "CustomTypeError" -> "TypeError"
      [] c = "CustomRuntimeError" -> "RuntimeError"
      [] c = "CustomPermissionError" -> "PermissionError"

\* Python's builtin classes.
BuiltinBases(c) ==
    CASE c = "object" -> {}
      [] c = "BaseException" -> {"object"}
      [] c \in {"Exception", "KeyboardInterrupt"} -> {"BaseException"}
      [] c \in {"LookupError", "ValueError", "TypeError", "RuntimeError",
                "OSError"} -> {"Exception"}
      [] c \in {"KeyError", "IndexError"} -> {"LookupError"}
      [] c = "PermissionError" -> {"OSError"}
      [] OTHER -> {"object"}

\* exceptions.FramePropError: a CustomKeyError.
FramePropErrorBases == {"CustomKeyError"}

Bases(c) ==
    CASE c = "CustomError" -> {"Exception"}
      [] c \in Variants -> {"CustomError", StdOf(c)}
      [] c = "FramePropError" -> FramePropErrorBases
      [] OTHER -> BuiltinBases(c)

RECURSIVE IsSubclass(_, _)
IsSubclass(c, d) == c = d \/ \E b \in Bases(c) : IsSubclass(b, d)

\* isinstance(v, t) for a value v and a class t.
IsInstance(v, t) == IsSubclass(TypeOf(v), t)

--------------------------------------------------------------------------
(* str(v) and int(v).                                                      *)

DigitChars == <<"0", "1", "2", "3", "4", "5", "6", "7", "8", "9">>

RECURSIVE IntToStr(_)
IntToStr(n) ==
    IF n < 0 THEN <<"-">> \o IntToStr(-n)
    ELSE IF n < 10 THEN <<DigitChars[n + 1]>>
    ELSE IntToStr(n \div 10) \o <<DigitChars[(n % 10) + 1]>>

\* str(v): the characters of v's string representation.
StrOf(v) ==
    CASE v.ty = "int" -> IntToStr(v.i)
      [] v.ty = "str" -> v.s
      [] v.ty = "NoneType" -> <<"N", "o", "n", "e">>
      [] OTHER -> <<"<">> \o v.s \o <<">">>

IsDigit(ch) == \E d \in 1..10 : DigitChars[d] = ch
DigitVal(ch) == (CHOOSE d \in 1..10 : DigitChars[d] = ch) - 1

RECURSIVE DigitsToInt(_)
DigitsToInt(cs) ==
    IF cs = <<>> THEN 0
    ELSE 10 * DigitsToInt(SubSeq(cs, 1, Len(cs) - 1)) + DigitVal(cs[Len(cs)])

AllDigits(cs) == cs # <<>> /\ \A j \in 1..Len(cs) : IsDigit(cs[j])

\* The outcome of calling a callable: a value, or an exception class.
Returned(v) == [ok |-> TRUE, value |-> v, exc |-> ""]
Raised(c) == [ok |-> FALSE, value |-> NoneV, exc |-> c]

\* int(v)
IntOf(v) ==
    CASE v.ty = "int" -> Returned(v)
      [] v.ty = "str" ->
            IF AllDigits(v.s) THEN Returned(IntV(DigitsToInt(v.s)))
            ELSE IF Len(v.s) > 1 /\ v.s[1] = "-" /\ AllDigits(Tail(v.s))
            THEN Returned(IntV(-DigitsToInt(Tail(v.s))))
            ELSE Raised("ValueError")
      [] OTHER -> Raised("TypeError")

--------------------------------------------------------------------------
(* get_prop (utils/props.py 54-114).                                       *)

Keys == {"key1", "key2"}
PropValues == {IntV(5), IntV(12), StrV(<<"7">>), StrV(<<"x">>)}
PropMaps == UNION {[D -> PropValues] : D \in SUBSET Keys}
EmptyMap == [k \in {} |-> NoneV]

\* A key is a string or a PropEnum member, which carries its prop_key.
StrKey(k) == [kind |-> "str", name |-> k, prop_key |-> ""]
EnumKey(member, k) == [kind |-> "enum", name |-> member, prop_key |-> k]
KeyArgs == {StrKey(k) : k \in Keys} \cup {EnumKey("KEY1", "key1")}
ExpectedTypes == {"int", "str"}
CastRaises == {"ValueError", "TypeError", "KeyError", "KeyboardInterrupt",
               "CustomRuntimeError"}
NoCast == [kind |-> "none", exc |-> ""]
Casts == {NoCast, [kind |-> "str", exc |-> ""], [kind |-> "int", exc |-> ""]}
             \cup {[kind |-> "raises", exc |-> c] : c \in CastRaises}
Defaults == {MISSING, NoneV, IntV(0), IntV(-1), StrV(<<"x">>), StrV(<<>>)}
FuncArgs == {NoneV, StrV(<<"f">>)}
ObjKinds == {"node", "frame", "map"}

\* The frame-bearing objects: a node (its frames in order), a frame, or a
\* raw property container.
Obj(kind, p) ==
    [kind |-> kind,
     frames |-> IF kind = "node" THEN <<[props |-> p], [props |-> EmptyMap]>>
                ELSE <<[props |-> p]>>]

GetPropFn == FuncV(<<"get_prop">>)

\* functions.fallback: the first value that is not None.
fallback(value, fb) == IF value # NoneV THEN value ELSE fb

\* Lines 78-83: the property container an object yields.
ResolveProps(obj) ==
    CASE obj.kind = "node" -> obj.frames[0 + 1].props
      [] obj.kind = "frame" -> obj.frames[1].props
      [] OTHER -> obj.frames[1].props

\* Lines 85-86.
PropKey(k) == IF k.kind = "enum" THEN k.prop_key ELSE k.name

\* cast(prop): what the caller-supplied cast does on a value.
CastCall(cast, v) ==
    CASE cast.kind = "str" -> Returned(StrV(StrOf(v)))
      [] cast.kind = "int" -> IntOf(v)
      [] cast.kind = "raises" -> Raised(cast.exc)

NoErr == [cls |-> "", function |-> NoneV, key |-> "", message |-> "",
          t |-> "", prop_t |-> ""]

MsgMissing == "Key {key} not present in props!"
MsgWrongType ==
    "Key {key} did not contain expected type: Expected {t} got {prop_t}!"

\* FramePropError(function, key, message, **kwargs) as constructed at lines
\* 105-112; message "" when the call passes none.
FramePropError(function, k, message, t, prop_t) ==
    [cls |-> "FramePropError", function |-> function, key |-> k,
     message |-> message, t |-> t, prop_t |-> prop_t]

\* Mutants of the sentinel test: `default is not None`, and no test at all.
DefaultNotNone(d) == d # NoneV
DefaultAlways(d) == TRUE

\* Line 101: `default is not MISSING`.
DefaultGiven(d) == d # MISSING

\* Mutant: the wrong-type branch reports the expected type as the actual one.
HandlerErrorExpectedTwice(e, p, f, k, t) ==
    IF IsSubclass(e, "KeyError") \/ p = MISSING
    THEN FramePropError(f, k, MsgMissing, "", "")
    ELSE IF IsSubclass(e, "TypeError")
    THEN FramePropError(f, k, MsgWrongType, t, t)
    ELSE FramePropError(f, k, "", "", "")

\* Lines 104-112: the error raised for exception class e.
HandlerError(e, p, f, k, t) ==
    IF IsSubclass(e, "KeyError") \/ p = MISSING
    THEN FramePropError(f, k, MsgMissing, "", "")
    ELSE IF IsSubclass(e, "TypeError")
    THEN FramePropError(f, k, MsgWrongType, t, TypeOf(p))
    ELSE FramePropError(f, k, "", "", "")

NoResult == [kind |-> "none", value |-> NoneV, err |-> NoErr]
ReturnOf(v) == [kind |-> "return", value |-> v, err |-> NoErr]
RaiseOf(e) == [kind |-> "raise", value |-> NoneV, err |-> e]

NoArgs == [obj |-> Obj("map", EmptyMap), key |-> StrKey("key1"),
           t |-> "int", cast |-> NoCast, default |-> MISSING, func |-> NoneV]

InitProp ==
    /\ pc = "idle"
    /\ args = NoArgs
    /\ props = EmptyMap
    /\ key = ""
    /\ func = NoneV
    /\ prop = MISSING
    /\ exc = ""
    /\ castCalls = <<>>
    /\ result = NoResult

\* Lines 54-88: the call, up to the try block.
Call ==
    /\ pc = "idle"
    /\ \E kind \in ObjKinds, p \in PropMaps, k \in KeyArgs, t \in ExpectedTypes,
          c \in Casts, d \in Defaults, f \in FuncArgs :
          /\ args' = [obj |-> Obj(kind, p), key |-> k, t |-> t, cast |-> c,
                      default |-> d, func |-> f]
          /\ func' = fallback(f, GetPropFn)
          /\ props' = ResolveProps(Obj(kind, p))
          /\ key' = PropKey(k)
    /\ prop' = MISSING
    /\ exc' = ""
    /\ castCalls' = <<>>
    /\ result' = NoResult
    /\ pc' = "lookup"
    /\ UNCHANGED <<errVars, mergeVars>>

\* Line 91: prop = props[key].
Lookup ==
    /\ pc = "lookup"
    /\ IF key \in DOMAIN props
       THEN prop' = props[key] /\ exc' = exc /\ pc' = "check"
       ELSE prop' = prop /\ exc' = "KeyError" /\ pc' = "except"
    /\ UNCHANGED <<args, props, key, func, castCalls, result>>
    /\ UNCHANGED <<errVars, mergeVars>>

\* Mutant: the isinstance test is left out, so the cast sees any value found.
CheckSkipped ==
    /\ pc = "check"
    /\ pc' = "cast"
    /\ UNCHANGED <<args, props, key, func, prop, exc, castCalls, result>>
    /\ UNCHANGED <<errVars, mergeVars>>

\* Lines 93-94.
Check ==
    /\ pc = "check"
    /\ IF IsInstance(prop, args.t)
       THEN exc' = exc /\ pc' = "cast"
       ELSE exc' = "TypeError" /\ pc' = "except"
    /\ UNCHANGED <<args, props, key, func, prop, castCalls, result>>
    /\ UNCHANGED <<errVars, mergeVars>>

\* Lines 96-99.
Cast ==
    /\ pc = "cast"
    /\ IF args.cast = NoCast
       THEN /\ result' = ReturnOf(prop)
            /\ pc' = "done"
            /\ UNCHANGED <<exc, castCalls>>
       ELSE /\ castCalls' = Append(castCalls, prop)
            /\ LET r == CastCall(args.cast, prop) IN
                 IF r.ok
                 THEN result' = ReturnOf(r.value) /\ exc' = exc /\ pc' = "done"
                 ELSE result' = result /\ exc' = r.exc /\ pc' = "except"
    /\ UNCHANGED <<args, props, key, func, prop>>
    /\ UNCHANGED <<errVars, mergeVars>>

\* Lines 100-114.
Except ==
    /\ pc = "except"
    /\ IF DefaultGiven(args.default)
       THEN result' = ReturnOf(args.default)
       ELSE result' = RaiseOf(HandlerError(exc, prop, func, key, args.t))
    /\ pc' = "done"
    /\ UNCHANGED <<args, props, key, func, prop, exc, castCalls>>
    /\ UNCHANGED <<errVars, mergeVars>>

\* The caller receives the result (line 97, 99, 102 or 114); the call's frame is
\* gone and another call may follow.
Finish ==
    /\ pc = "done"
    /\ pc' = "idle"
    /\ args' = NoArgs
    /\ props' = EmptyMap
    /\ key' = ""
    /\ func' = NoneV
    /\ prop' = MISSING
    /\ exc' = ""
    /\ castCalls' = <<>>
    /\ result' = NoResult
    /\ UNCHANGED <<errVars, mergeVars>>

NextProp == Call \/ Lookup \/ Check \/ Cast \/ Except \/ Finish


--------------------------------------------------------------------------
(* CustomError.__init__ (exceptions/base.py 35-58) and the handlers that   *)
(* catch an instance.                                                      *)

MaxMsgLen == 3

MsgChars == {"a", "k", "{", "}"}
Templates == UNION {[1..n -> MsgChars] : n \in 0..MaxMsgLen}

\* message: absent, a template string, or another object with a str().
Messages == {NoneV, IntV(12)} \cup {StrV(m) : m \in Templates}
\* function: absent, an empty or non-empty label, or a function object.
Functions == {NoneV, StrV(<<>>), StrV(<<"f">>), FuncV(<<"g">>)}
\* **kwargs: the substitutions, by name.
Kwargs == {EmptyMap} \cup {[n \in {<<"k">>} |-> v] : v \in {IntV(12), StrV(<<"v">>)}}
ErrorClasses == {"CustomError"} \cup Variants
Handlers == {"CustomError", "ValueError", "KeyError", "TypeError", "RuntimeError",
             "PermissionError", "LookupError", "OSError", "Exception"}

\* The position of the "}" closing the replacement field that starts after
\* position i, or 0 when a "{" or the end of the string comes first.
RECURSIVE FieldEnd(_, _)
FieldEnd(m, j) ==
    IF j > Len(m) THEN 0
    ELSE IF m[j] = "}" THEN j
    ELSE IF m[j] = "{" THEN 0
    ELSE FieldEnd(m, j + 1)

\* str.format(**kw) from position i on: the text, or the exception it raises.
RECURSIVE FormatFrom(_, _, _)
FormatFrom(m, i, kw) ==
    IF i > Len(m) THEN Returned(StrV(<<>>))
    ELSE LET two == i < Len(m) /\ m[i + 1] = m[i]
             rest(j, cs) ==
                 LET r == FormatFrom(m, j, kw) IN
                 IF r.ok THEN Returned(StrV(cs \o r.value.s)) ELSE r
         IN CASE m[i] = "{" /\ two -> rest(i + 2, <<"{">>)
              [] m[i] = "}" /\ two -> rest(i + 2, <<"}">>)
              [] m[i] = "}" /\ ~two -> Raised("ValueError")
              [] m[i] = "{" /\ ~two ->
                    LET e == FieldEnd(m, i + 1)
                        name == SubSeq(m, i + 1, e - 1)
                    IN IF e = 0 THEN Raised("ValueError")
                       ELSE IF name = <<>> THEN Raised("IndexError")
                       ELSE IF name \notin DOMAIN kw THEN Raised("KeyError")
                       ELSE rest(e + 1, StrOf(kw[name]))
              [] OTHER -> rest(i + 1, <<m[i]>>)

\* Line 45: message.format(**kwargs).
Format(m, kw) == FormatFrom(m, 1, kw)

\* functions.norm_func_name: a label's text, a function's name.
norm_func_name(f) == IF f.ty = "function" THEN f.s ELSE StrOf(f)

Cyan == <<"ESC[0;36m">>
ColorOff == <<"ESC[0m">>

\* Mutant: the label test is `function is not None`.
HasFunctionNotNone(f) == f # NoneV

\* Line 47: `if function:`.
HasFunction(f) == Truthy(f)

\* Lines 47-56: func_header.
FuncHeader(f, tty) ==
    IF HasFunction(f)
    THEN LET h == <<"(">> \o norm_func_name(f) \o <<")">> IN
         (IF tty THEN Cyan \o h \o ColorOff ELSE h) \o <<" ">>
    ELSE <<>>

\* Lines 40-58: the args the instance is initialised with, or the exception
\* the constructor raises.
InitArgs(message, function, kw, tty) ==
    IF message = NoneV THEN [ok |-> TRUE, args |-> <<>>, exc |-> ""]
    ELSE LET formatted == Format(StrOf(message), kw) IN
         IF ~formatted.ok THEN [ok |-> FALSE, args |-> <<>>, exc |-> formatted.exc]
         ELSE [ok |-> TRUE, exc |-> "",
               args |-> <<FuncHeader(function, tty) \o formatted.value.s>>]

NoInstance == [cls |-> "", args |-> <<>>]
NoCtorArgs == [cls |-> "CustomError", message |-> NoneV, function |-> NoneV,
               kwargs |-> EmptyMap, tty |-> FALSE]

\* str(e) of an exception instance.
TextOf(e) == IF e.args = <<>> THEN <<>> ELSE e.args[1]

InitErr ==
    /\ epc = "idle"
    /\ eargs = NoCtorArgs
    /\ err = NoInstance
    /\ ctorExc = ""
    /\ handler = ""
    /\ caught = FALSE

\* E(message, function, **kwargs) for an error class E; sys.stdout.isatty()
\* is the environment's.
Construct ==
    /\ epc = "idle"
    /\ \E c \in ErrorClasses, m \in Messages, f \in Functions, kw \in Kwargs,
          tty \in BOOLEAN :
          /\ eargs' = [cls |-> c, message |-> m, function |-> f, kwargs |-> kw,
                       tty |-> tty]
          /\ LET r == InitArgs(m, f, kw, tty) IN
               IF r.ok
               THEN err' = [cls |-> c, args |-> r.args] /\ ctorExc' = ""
                    /\ epc' = "constructed"
               ELSE err' = NoInstance /\ ctorExc' = r.exc /\ epc' = "failed"
    /\ UNCHANGED <<handler, caught>>
    /\ UNCHANGED <<propVars, mergeVars>>

\* try: raise err / except h: the handler catches instances of h.
TryExcept ==
    /\ epc = "constructed"
    /\ \E h \in Handlers :
          /\ handler' = h
          /\ caught' = IsSubclass(err.cls, h)
    /\ epc' = "handled"
    /\ UNCHANGED <<eargs, err, ctorExc>>
    /\ UNCHANGED <<propVars, mergeVars>>

\* The instance (or the constructor's own exception) is dropped.
Discard ==
    /\ epc \in {"handled", "failed"}
    /\ epc' = "idle"
    /\ eargs' = NoCtorArgs
    /\ err' = NoInstance
    /\ ctorExc' = ""
    /\ handler' = ""
    /\ caught' = FALSE
    /\ UNCHANGED <<propVars, mergeVars>>

--------------------------------------------------------------------------
(* merge_clip_props (utils/props.py 117-132) and the engine's calls of the *)
(* per-frame callback _merge_props.                                       *)

MaxClips == 3
NumFrames == 2

Workers == {"w1", "w2"}
FrameIdx == 0..(NumFrames - 1)

\* Frame objects live in a heap: the input clips' frames, and one slot per
\* worker for the frame its invocation creates.
InId(c, n) == [kind |-> "in", c |-> c, n |-> n, w |-> ""]
NewId(w) == [kind |-> "new", c |-> 0, n |-> 0, w |-> w]
NoId == [kind |-> "none", c |-> 0, n |-> 0, w |-> ""]
FrameIds == {InId(c, n) : c \in 1..MaxClips, n \in FrameIdx}
                \cup {NewId(w) : w \in Workers}

NoFrame == [live |-> FALSE, content |-> [clip |-> 0, n |-> 0], props |-> EmptyMap]

\* Frame n of input clip c: its own picture content, and under each key the
\* clip carries a value that names the clip and the frame.
InputFrame(c, n, ks) ==
    [live |-> TRUE, content |-> [clip |-> c, n |-> n],
     props |-> [k \in ks |-> IntV(10 * c + n)]]

\* Python's seq[i] on a sequence of length len: the 1-based position, or 0
\* for an IndexError.
PyIndex(i, len) ==
    IF 0 <= i /\ i < len THEN i + 1
    ELSE IF i < 0 /\ i + len >= 0 THEN i + len + 1
    ELSE 0

\* Mutant: existing keys keep their value (setdefault instead of update).
UpdateKeepExisting(dst, src) ==
    [k \in DOMAIN dst \cup DOMAIN src |->
        IF k \in DOMAIN dst THEN dst[k] ELSE src[k]]

\* Line 128: dst.update(src).
Update(dst, src) ==
    [k \in DOMAIN dst \cup DOMAIN src |->
        IF k \in DOMAIN src THEN src[k] ELSE dst[k]]

\* Mutant: off by one in the single-clip test.
SingleClipOffByOne(cs) == Len(cs) = 0

\* Line 118: len(clips) == 1.
SingleClip(cs) == Len(cs) = 1

\* Mutant: fdst is the main frame itself, not a copy of it.
CopyTargetAlias(w, src) == src

\* Line 122: where the frame made by f[main_idx].copy() lives.
CopyTarget(w, src) == NewId(w)

\* The list f the engine passes for output frame n: frame n of every clip.
FrameList(cs, n) == [i \in 1..Len(cs) |-> InId(cs[i], n)]

IdleWorkers == [w \in Workers |-> [pc |-> "idle", n |-> 0, i |-> 0, fdst |-> NoId]]

InitMerge ==
    /\ mpc = "idle"
    /\ clips = <<>>
    /\ clipKeys = <<>>
    /\ main_idx = 0
    /\ retNode = 0
    /\ callbackOn = FALSE
    /\ frames = [id \in FrameIds |-> NoFrame]
    /\ worker = IdleWorkers
    /\ out = [n \in FrameIdx |-> NoFrame]

\* Lines 117-132: merge_clip_props(*clips, main_idx). Clip i is node i; the
\* node made by std.ModifyFrame gets a new identity. main_idx is any index
\* of the inputs, -1 (Python's last element) or len(clips) (out of range).
MergeClipProps ==
    /\ mpc = "idle"
    /\ \E len \in 1..MaxClips :
       \E ks \in [1..len -> SUBSET Keys], mi \in (-1)..len :
          /\ clips' = [i \in 1..len |-> i]
          /\ clipKeys' = ks
          /\ main_idx' = mi
          /\ frames' = [id \in FrameIds |->
                           IF id.kind = "in" /\ id.c <= len
                           THEN InputFrame(id.c, id.n, ks[id.c]) ELSE NoFrame]
          /\ IF SingleClip([i \in 1..len |-> i])
             THEN retNode' = 1 /\ callbackOn' = FALSE
             ELSE retNode' = len + 1 /\ callbackOn' = TRUE
    /\ mpc' = "merged"
    /\ UNCHANGED <<worker, out>>
    /\ UNCHANGED <<propVars, errVars>>

\* The engine asks for output frame n and runs the callback on a worker
\* thread: _merge_props(f, n) is entered. Each output frame is made once, and
\* concurrent invocations are for different frame indices.
Begin(w, n) ==
    /\ callbackOn
    /\ worker[w].pc = "idle"
    /\ ~out[n].live
    /\ \A v \in Workers : worker[v].pc = "idle" \/ worker[v].n # n
    /\ worker' = [worker EXCEPT ![w] = [pc |-> "copy", n |-> n, i |-> 0, fdst |-> NoId]]
    /\ UNCHANGED <<mpc, clips, clipKeys, main_idx, retNode, callbackOn, frames, out>>
    /\ UNCHANGED <<propVars, errVars>>

\* Line 122: fdst = f[main_idx].copy().
Copy(w) ==
    /\ worker[w].pc = "copy"
    /\ LET f == FrameList(clips, worker[w].n)
           at == PyIndex(main_idx, Len(f))
       IN IF at = 0
          THEN /\ worker' = [worker EXCEPT ![w].pc = "raised"]
               /\ frames' = frames
          ELSE LET dst == CopyTarget(w, f[at]) IN
               /\ frames' = [frames EXCEPT ![dst] = frames[f[at]]]
               /\ worker' = [worker EXCEPT ![w].pc = "loop", ![w].fdst = dst]
    /\ UNCHANGED <<mpc, clips, clipKeys, main_idx, retNode, callbackOn, out>>
    /\ UNCHANGED <<propVars, errVars>>

\* Lines 124-128: one iteration of the loop over enumerate(f).
Loop(w) ==
    /\ worker[w].pc = "loop"
    /\ LET f == FrameList(clips, worker[w].n)
           i == worker[w].i
           dst == worker[w].fdst
       IN IF i >= Len(f)
          THEN /\ worker' = [worker EXCEPT ![w].pc = "ret"]
               /\ frames' = frames
          ELSE /\ worker' = [worker EXCEPT ![w].i = i + 1]
               /\ IF i = main_idx
                  THEN frames' = frames
                  ELSE frames' = [frames EXCEPT ![dst].props =
                                      Update(frames[dst].props, frames[f[i + 1]].props)]
    /\ UNCHANGED <<mpc, clips, clipKeys, main_idx, retNode, callbackOn, out>>
    /\ UNCHANGED <<propVars, errVars>>

\* Line 130: return fdst; the engine takes the frame as output frame n.
Return(w) ==
    /\ worker[w].pc = "ret"
    /\ out' = [out EXCEPT ![worker[w].n] = frames[worker[w].fdst]]
    /\ frames' = IF worker[w].fdst.kind = "new"
                 THEN [frames EXCEPT ![worker[w].fdst] = NoFrame] ELSE frames
    /\ worker' = [worker EXCEPT ![w] = IdleWorkers[w]]
    /\ UNCHANGED <<mpc, clips, clipKeys, main_idx, retNode, callbackOn>>
    /\ UNCHANGED <<propVars, errVars>>

\* The nodes are released once no invocation is running.
Release ==
    /\ mpc = "merged"
    /\ \A w \in Workers : worker[w].pc \in {"idle", "raised"}
    /\ mpc' = "idle"
    /\ clips' = <<>>
    /\ clipKeys' = <<>>
    /\ main_idx' = 0
    /\ retNode' = 0
    /\ callbackOn' = FALSE
    /\ frames' = [id \in FrameIds |-> NoFrame]
    /\ worker' = IdleWorkers
    /\ out' = [n \in FrameIdx |-> NoFrame]
    /\ UNCHANGED <<propVars, errVars>>

--------------------------------------------------------------------------
(* The specifications: one per component, the other components at rest.    *)

Init == InitProp /\ InitErr /\ InitMerge

NextErr == Construct \/ TryExcept \/ Discard

NextMerge ==
    \/ MergeClipProps
    \/ \E w \in Workers, n \in FrameIdx : Begin(w, n)
    \/ \E w \in Workers : Copy(w)
    \/ \E w \in Workers : Loop(w)
    \/ \E w \in Workers : Return(w)
    \/ Release

SpecProp == Init /\ [][NextProp]_vars
SpecErr == Init /\ [][NextErr]_vars
SpecMerge == Init /\ [][NextMerge]_vars

--------------------------------------------------------------------------
(* Properties of get_prop, stated on the arguments of the call.            *)

\* The container and the key string the caller passed.
ArgProps == args.obj.frames[1].props
ArgKey == IF args.key.kind = "enum" THEN args.key.prop_key ELSE args.key.name
Absent == ArgKey \notin DOMAIN ArgProps
WrongType == ~Absent /\ ArgProps[ArgKey].ty # args.t
Found == ~Absent /\ ArgProps[ArgKey].ty = args.t
Ended == pc = "done"

\* C1: with a default other than the MISSING sentinel (None, 0 and empty
\* values included), a call whose key is absent or whose stored value is not
\* an instance of the expected type returns that default and raises nothing.
C1_DefaultReturned ==
    (Ended /\ args.default # MISSING /\ (Absent \/ WrongType))
        => result = ReturnOf(args.default)

\* get_prop({}, "key1", int, default=-1) has returned -1.
C1_Witness ==
    /\ Ended
    /\ ArgProps = EmptyMap
    /\ args.key = StrKey("key1")
    /\ args.t = "int"
    /\ args.cast = NoCast
    /\ args.default = IntV(-1)
    /\ result = ReturnOf(IntV(-1))

\* C2: the cast is invoked only on the value found under the key and only
\* when that value is an instance of the expected type, with or without a
\* default; a found, well-typed value is returned raw when there is no cast
\* and as cast(value) when the cast returns.
C2_CastOnlyOnTyped ==
    /\ \A j \in 1..Len(castCalls) :
          /\ Found
          /\ castCalls[j] = ArgProps[ArgKey]
          /\ args.cast # NoCast
    /\ Len(castCalls) <= 1
    /\ (Ended /\ Found /\ args.cast = NoCast)
          => result = ReturnOf(ArgProps[ArgKey])
    /\ (Ended /\ Found /\ args.cast # NoCast)
          => /\ castCalls = <<ArgProps[ArgKey]>>
             /\ CastCall(args.cast, ArgProps[ArgKey]).ok
                   => result = ReturnOf(CastCall(args.cast, ArgProps[ArgKey]).value)

\* get_prop({"key1": 5}, "key1", int, cast=str, default="x") has returned "5".
C2_Witness ==
    /\ Ended
    /\ ArgProps = [k \in {"key1"} |-> IntV(5)]
    /\ ArgKey = "key1"
    /\ args.t = "int"
    /\ args.cast.kind = "str"
    /\ args.default = StrV(<<"x">>)
    /\ castCalls = <<IntV(5)>>
    /\ result = ReturnOf(StrV(<<"5">>))

\* C3: with no default, an absent key raises the FramePropError of the
\* missing-key form carrying the key string, and a present value that is not
\* an instance of the expected type raises the FramePropError of the
\* wrong-type form carrying the key, the expected type and the actual type.
C3_ErrorForms ==
    /\ (Ended /\ args.default = MISSING /\ Absent)
          => /\ result.kind = "raise"
             /\ result.err.cls = "FramePropError"
             /\ result.err.message = MsgMissing
             /\ result.err.key = ArgKey
    /\ (Ended /\ args.default = MISSING /\ WrongType)
          => /\ result.kind = "raise"
             /\ result.err.cls = "FramePropError"
             /\ result.err.message = MsgWrongType
             /\ result.err.key = ArgKey
             /\ result.err.t = args.t
             /\ result.err.prop_t = ArgProps[ArgKey].ty

\* A str was found where an int was expected, no default: the call has raised.
C3_Witness ==
    /\ Ended
    /\ args.default = MISSING
    /\ WrongType
    /\ args.t = "int"
    /\ result.kind = "raise"
    /\ result.err.prop_t = "str"

\* C7 as claimed: with no default, a failure raised by the cast reaches the
\* caller unchanged in category (the raised error is of the cast's exception
\* class).
C7_CategoryUnchanged ==
    (Ended /\ args.default = MISSING /\ castCalls # <<>> /\ exc # "")
        => /\ result.kind = "raise"
           /\ IsSubclass(result.err.cls, exc)

\* C7 amended: a failure is turned into a normal return only when a default
\* was supplied, and then the default is what is returned; with no default
\* every failure raised during lookup or casting reaches the caller as a
\* raised FramePropError, whatever the class of the original exception.
C7_NeverSwallowed ==
    /\ (Ended /\ exc # "" /\ result.kind = "return")
          => args.default # MISSING /\ result.value = args.default
    /\ (Ended /\ exc # "" /\ args.default = MISSING)
          => result.kind = "raise" /\ result.err.cls = "FramePropError"

\* The cast raised ValueError on a well-typed value, no default: the caller
\* gets a FramePropError.
C7_Witness ==
    /\ Ended
    /\ args.default = MISSING
    /\ Found
    /\ castCalls # <<>>
    /\ exc = "ValueError"
    /\ result.kind = "raise"
    /\ result.err.cls = "FramePropError"

\* C8: with no default the raised error has the missing-key form exactly when
\* the container has no entry for the key, the wrong-type form exactly when
\* the entry is not an instance of the expected type, and the generic form
\* (no message, no types) in every other case, whatever the cast raised.
C8_FormMatchesCondition ==
    (Ended /\ args.default = MISSING /\ result.kind = "raise")
        => /\ result.err.message = MsgMissing <=> Absent
           /\ result.err.message = MsgWrongType <=> WrongType
           /\ result.err.message = "" <=> Found

--------------------------------------------------------------------------
(* Properties of the error hierarchy.                                      *)

StdCategories == {"ValueError", "KeyError", "TypeError", "RuntimeError",
                  "PermissionError"}
MatchingStd == {<<"CustomValueError", "ValueError">>, <<"CustomKeyError", "KeyError">>,
                <<"CustomTypeError", "TypeError">>,
                <<"CustomRuntimeError", "RuntimeError">>,
                <<"CustomPermissionError", "PermissionError">>}

\* C6: a raised instance of one of the five variants is caught by a handler
\* for CustomError and by a handler for its matching standard category, and
\* by no handler for one of the other four standard categories.
C6_CaughtByBoth ==
    (epc = "handled" /\ err.cls \in Variants)
        => /\ handler = "CustomError" => caught
           /\ \A p \in MatchingStd :
                 err.cls = p[1]
                    => /\ handler = p[2] => caught
                       /\ handler \in StdCategories \ {p[2]} => ~caught

\* A CustomPermissionError has been caught by `except PermissionError`.
C6_Witness ==
    /\ epc = "handled"
    /\ err.cls = "CustomPermissionError"
    /\ handler = "PermissionError"
    /\ caught

\* A message template as the pieces it is made of: literal characters,
\* named placeholders, and the escaped braces.
FieldNames == UNION {[1..n -> {"a", "k"}] : n \in 1..(MaxMsgLen - 2)}
Tokens == {[kind |-> "lit", name |-> <<c>>] : c \in {"a", "k"}}
              \cup {[kind |-> "field", name |-> nm] : nm \in FieldNames}
              \cup {[kind |-> "open", name |-> <<>>], [kind |-> "close", name |-> <<>>]}

\* The template text of a piece, and the text it is rendered as.
PieceText(tok) ==
    CASE tok.kind = "lit" -> tok.name
      [] tok.kind = "field" -> <<"{">> \o tok.name \o <<"}">>
      [] tok.kind = "open" -> <<"{", "{">>
      [] tok.kind = "close" -> <<"}", "}">>
PieceRendered(tok, kw) ==
    CASE tok.kind = "lit" -> tok.name
      [] tok.kind = "field" -> StrOf(kw[tok.name])
      [] tok.kind = "open" -> <<"{">>
      [] tok.kind = "close" -> <<"}">>

RECURSIVE Rendered(_, _)
Rendered(toks, kw) ==
    IF toks = <<>> THEN <<>>
    ELSE PieceRendered(Head(toks), kw) \o Rendered(Tail(toks), kw)

StartsWith(text, pre) == Len(text) >= Len(pre) /\ SubSeq(text, 1, Len(pre)) = pre

\* The ways to read a template as pieces: every sequence of pieces whose
\* template text is m.
RECURSIVE PiecesOf(_)
PiecesOf(m) ==
    IF m = <<>> THEN {<<>>}
    ELSE UNION {{<<tok>> \o rest :
                    rest \in PiecesOf(SubSeq(m, Len(PieceText(tok)) + 1, Len(m)))} :
                tok \in {t \in Tokens : StartsWith(m, PieceText(t))}}
AllGiven(toks, kw) ==
    \A j \in 1..Len(toks) : toks[j].kind = "field" => toks[j].name \in DOMAIN kw

\* "(label)", in the cyan colour codes on a terminal, then one space.
LabelPrefix(f, tty) ==
    LET h == <<"(">> \o norm_func_name(f) \o <<")">> IN
    (IF tty THEN Cyan \o h \o ColorOff ELSE h) \o <<" ">>

\* C9 as claimed: whenever a function label is supplied (anything but None)
\* and a message is given, the text starts with the parenthesised label and
\* one space.
C9_PrefixWheneverSupplied ==
    (epc = "constructed" /\ eargs.message # NoneV /\ eargs.function # NoneV)
        => StartsWith(TextOf(err), LabelPrefix(eargs.function, eargs.tty))

\* C9 amended: no message, no text, whatever the label and substitutions;
\* otherwise the text is the prefix followed by the template with every named
\* placeholder replaced by its substitution, the prefix being the label in
\* parentheses and one space when the label is truthy, and empty when the
\* label is None or falsy (the empty string).
C9_MessageText ==
    /\ (epc = "constructed" /\ eargs.message = NoneV) => err.args = <<>>
    /\ (epc \in {"constructed", "failed"} /\ eargs.message # NoneV)
          => LET pre == IF Truthy(eargs.function)
                        THEN LabelPrefix(eargs.function, eargs.tty) ELSE <<>>
             IN /\ eargs.message.ty = "int"
                      => /\ epc = "constructed"
                         /\ TextOf(err) = pre \o <<"1", "2">>
                /\ eargs.message.ty = "str"
                      => \A toks \in PiecesOf(eargs.message.s) :
                            AllGiven(toks, eargs.kwargs)
                               => /\ epc = "constructed"
                                  /\ err.args # <<>>
                                  /\ TextOf(err) = pre \o Rendered(toks, eargs.kwargs)

\* CustomError("a{k}"-like template with label "f" and k=12) has been built.
C9_Witness ==
    /\ epc = "constructed"
    /\ eargs.message = StrV(<<"{", "k", "}">>)
    /\ eargs.function = StrV(<<"f">>)
    /\ eargs.kwargs = [n \in {<<"k">>} |-> IntV(12)]
    /\ ~eargs.tty
    /\ TextOf(err) = <<"(", "f", ")", " ", "1", "2">>

--------------------------------------------------------------------------
(* Properties of merge_clip_props.                                         *)

MaxOf(S) == CHOOSE x \in S : \A y \in S : y <= x

\* C4: with two or more inputs and 0 <= main_idx < len(clips), every output
\* frame has the main input's content, and its properties are the main
\* input's overwritten by every other input's in input order: a key carried
\* by other inputs has the value of the last of them, a key only the main
\* input carries keeps the main value, and no other key appears.
C4_MergedProps ==
    \A n \in FrameIdx :
        (out[n].live /\ Len(clips) >= 2 /\ 0 <= main_idx /\ main_idx < Len(clips))
            => LET m == main_idx + 1
                   inp(i) == InputFrame(clips[i], n, clipKeys[i])
               IN /\ out[n].content = inp(m).content
                  /\ DOMAIN out[n].props = UNION {clipKeys[i] : i \in 1..Len(clips)}
                  /\ \A k \in DOMAIN out[n].props :
                        LET others == {i \in 1..Len(clips) : i # m /\ k \in clipKeys[i]}
                        IN out[n].props[k] =
                              IF others = {} THEN inp(m).props[k]
                              ELSE inp(MaxOf(others)).props[k]

\* Three inputs, the middle one main: key1 carried by all three has come from
\* the third, key2 carried by the main input alone has been kept.
C4_Witness ==
    /\ Len(clips) = 3
    /\ main_idx = 1
    /\ clipKeys = <<{"key1"}, {"key1", "key2"}, {"key1"}>>
    /\ out[1].live
    /\ out[1].props["key1"] = IntV(31)
    /\ out[1].props["key2"] = IntV(21)
    /\ out[1].content = [clip |-> 2, n |-> 1]

\* C5: called with exactly one input, merge_clip_props returns that node
\* itself whatever main_idx is, registers no callback, and so no invocation
\* ever runs and no frame is made.
C5_SingleIdentity ==
    (mpc = "merged" /\ Len(clips) = 1)
        => /\ retNode = clips[1]
           /\ ~callbackOn
           /\ \A w \in Workers : worker[w].pc = "idle"
           /\ \A n \in FrameIdx : ~out[n].live

\* One input and main_idx = 1: the input node has been returned.
C5_Witness ==
    /\ mpc = "merged"
    /\ Len(clips) = 1
    /\ main_idx = 1
    /\ retNode = clips[1]

\* _merge_props run alone on the input frames of index n, from loop index i.
RECURSIVE AloneFrom(_, _, _)
AloneFrom(dst, f, i) ==
    IF i >= Len(f) THEN dst
    ELSE AloneFrom(IF i = main_idx THEN dst
                   ELSE [dst EXCEPT !.props = Update(dst.props, f[i + 1].props)],
                   f, i + 1)
RunAlone(n) ==
    LET f == [i \in 1..Len(clips) |-> InputFrame(clips[i], n, clipKeys[i])] IN
    AloneFrom(f[PyIndex(main_idx, Len(f))], f, 0)

\* C10: under every interleaving of invocations on different frame indices,
\* the input frames and their properties stay as they were, each invocation
\* writes into a frame of its own that no other invocation and no input
\* shares, and each output frame is what the invocation yields when run
\* alone on the input frames of that index.
C10_NoSharedState ==
    mpc = "merged"
        => /\ \A c \in 1..Len(clips), n \in FrameIdx :
                 frames[InId(clips[c], n)] = InputFrame(clips[c], n, clipKeys[c])
           /\ \A w \in Workers :
                 worker[w].pc \in {"loop", "ret"}
                    => /\ worker[w].fdst.kind = "new"
                       /\ \A v \in Workers \ {w} : worker[v].fdst # worker[w].fdst
           /\ \A n \in FrameIdx : out[n].live => out[n] = RunAlone(n)

\* Two invocations are in their loops at once, on different frame indices,
\* each having already written into its frame.
C10_Witness ==
    /\ worker["w1"].pc = "loop"
    /\ worker["w2"].pc = "loop"
    /\ worker["w1"].n # worker["w2"].n
    /\ worker["w1"].i >= 2
    /\ worker["w2"].i >= 2
    /\ frames[worker["w1"].fdst].props # frames[InId(1, worker["w1"].n)].props

==========================================================================
